---- MODULE Spec2Model ----
(***************************************************************************)
(* LaunchRootExecutionButton (dagit launchpad): the click handler onLaunch *)
(* of src/js_modules/dagit/packages/core/src/launchpad/                    *)
(* LaunchRootExecutionButton.tsx, modelled as a state machine.             *)
(*                                                                         *)
(* JavaScript runs each callback to completion, so one action is one turn  *)
(* of the event loop: onLaunch is the turn started by the click (lines     *)
(* 35-49, up to the await), launchResolved and launchRejected are the      *)
(* turns that resume the handler after the await (lines 50-51 and 52-54).  *)
(* Several invocations may be suspended at the await at the same time.     *)
(* Every call the handler makes on a collaborator (the mutation, the       *)
(* telemetry sink, handleLaunchResult, showLaunchError) is appended to     *)
(* calls, in program order, and so is the unmounting of the component.     *)
(* What handleLaunchResult does to the browser (navigation, new window,    *)
(* toast) is kept in browser.                                              *)
(***************************************************************************)
EXTENDS Integers, Sequences, FiniteSets, TLC

VARIABLES
    props,                       \* the props of the mounted component
    canLaunchPipelineExecution,  \* usePermissions().canLaunchPipelineExecution
    invocations,                 \* one record per call of onLaunch, in click order
    calls,                       \* the calls made on the collaborators, in order
    mounted,                     \* whether the component is still mounted
    browser                      \* history stack, windows opened, toasts shown

vars == <<props, canLaunchPipelineExecution, invocations, calls, mounted, browser>>

\* ------------------------------------------------------------------ bounds

MaxClicks == 2

\* ------------------------------------------------------- JavaScript values

Null == [kind |-> "null"]
Undefined == [kind |-> "undefined"]
Str(s) == [kind |-> "string", str |-> s]
Arr(a) == [kind |-> "array", arr |-> a]

\* ToBoolean, as `if (x)` and `x || y` apply it: null, undefined and the empty
\* string are falsy; every array and every object (the empty array too) is truthy.
ToBooleanEmptyArrayFalsy(x) ==
    CASE x.kind = "null" -> FALSE
      [] x.kind = "undefined" -> FALSE
      [] x.kind = "string" -> x.str # ""
      [] x.kind = "array" -> x.arr # <<>>
      [] OTHER -> TRUE

ToBoolean(x) ==
    CASE x.kind = "null" -> FALSE
      [] x.kind = "undefined" -> FALSE
      [] x.kind = "string" -> x.str # ""
      [] OTHER -> TRUE

\* a || b
LogicalOr(a, b) == IF ToBoolean(a) THEN a ELSE b

\* x == null (loose equality: true of null and of undefined only)
IsNullishStrictUndefined(x) == x.kind = "undefined"

IsNullish(x) == x.kind \in {"null", "undefined"}

\* {} and obj[key] = value on a plain object
EmptyObject == [k \in {} |-> Undefined]
SetKey(obj, key, value) ==
    [k \in DOMAIN obj \cup {key} |-> IF k = key THEN value ELSE obj[k]]

\* ------------------------------------------------------------------ inputs

\* LaunchPipelineExecutionVariables: {executionParams: {selector, runConfigData, mode}}
Request(jobName, pipelineName, solidSelection, runConfigData) ==
    [kind |-> "object",
     executionParams |->
        [selector |-> [jobName |-> jobName,
                       pipelineName |-> pipelineName,
                       solidSelection |-> solidSelection],
         runConfigData |-> runConfigData,
         mode |-> "default"]]

JobNames == {Null, Undefined, Str(""), Str("job_a")}
PipelineNames == {Null, Undefined, Str(""), Str("pipe_b")}
SolidSelections == {Null, Undefined, Arr(<<>>), Arr(<<"op1">>)}
RunConfigs == {"cfg1", "cfg2"}

\* every value getVariables may return
AllVariables ==
    {Undefined, Null} \cup
    {Request(j, p, s, c) : j \in JobNames, p \in PipelineNames,
                           s \in SolidSelections, c \in RunConfigs}

\* the values getVariables returns in the specification of the control flow
Variables ==
    {Undefined, Null,
     Request(Str("job_a"), Undefined, Null, "cfg1"),
     Request(Undefined, Str("pipe_b"), Arr(<<"op1">>), "cfg1"),
     Request(Null, Null, Undefined, "cfg2"),
     Request(Str(""), Str(""), Arr(<<>>), "cfg1")}

\* what the mutation's promise resolves to: a created run, or a payload that
\* reports a failure of the launch
Results ==
    {[data |-> [launchPipelineExecution |->
                  [typename |-> "LaunchRunSuccess", runId |-> "run1"]]],
     [data |-> [launchPipelineExecution |->
                  [typename |-> "PythonError", runId |-> ""]]]}

\* what the mutation throws or rejects with
Errors == {"NetworkError", "GraphQLError"}

\* the call of launchPipelineExecution returns a pending promise or throws
CallOutcomes == {[throws |-> FALSE, error |-> ""]} \cup
                {[throws |-> TRUE, error |-> e] : e \in Errors}

Behaviors == {"open", "open-in-new-tab", "toast"}
PropsPipelineNames == {"job_a", "shown_name"}

\* ------------------------------------------------------------ the handler

\* lines 40-46: the telemetry metadata of a request
metadataPipelineFirst(variables) ==
    LET selector == variables.executionParams.selector
        m0 == EmptyObject
        m1 == IF ToBoolean(selector.solidSelection)
              THEN SetKey(m0, "opSelection", Str("provided"))
              ELSE m0
    IN SetKey(m1, "jobName", LogicalOr(selector.pipelineName, selector.jobName))

metadataOmitsUnsetName(variables) ==
    LET selector == variables.executionParams.selector
        m0 == EmptyObject
        m1 == IF ToBoolean(selector.solidSelection)
              THEN SetKey(m0, "opSelection", Str("provided"))
              ELSE m0
        name == LogicalOr(selector.jobName, selector.pipelineName)
    IN IF ToBoolean(name) THEN SetKey(m1, "jobName", name) ELSE m1

metadataWithRunConfig(variables) ==
    LET selector == variables.executionParams.selector
        m0 == EmptyObject
        m1 == IF ToBoolean(selector.solidSelection)
              THEN SetKey(m0, "opSelection", Str("provided"))
              ELSE m0
        m2 == SetKey(m1, "jobName", LogicalOr(selector.jobName, selector.pipelineName))
    IN SetKey(m2, "runConfig", Str(variables.executionParams.runConfigData))

metadata(variables) ==
    LET selector == variables.executionParams.selector
        m0 == EmptyObject
        m1 == IF ToBoolean(selector.solidSelection)
              THEN SetKey(m0, "opSelection", Str("provided"))
              ELSE m0
    IN SetKey(m1, "jobName", LogicalOr(selector.jobName, selector.pipelineName))

\* line 49: launchPipelineExecution({variables})
launchPipelineExecutionTwice(i, variables) ==
    <<[op |-> "launchPipelineExecution", inv |-> i, variables |-> variables],
      [op |-> "launchPipelineExecution", inv |-> i, variables |-> variables]>>

launchPipelineExecutionDeduplicated(i, variables) ==
    IF \E j \in DOMAIN invocations : invocations[j].pc = "await"
    THEN <<>>
    ELSE <<[op |-> "launchPipelineExecution", inv |-> i, variables |-> variables]>>

launchPipelineExecutionNotAwaited(i, variables) ==
    <<[op |-> "launchPipelineExecution", inv |-> i, variables |-> variables],
      [op |-> "logTelemetry", inv |-> i, action |-> "LAUNCH_RUN",
       metadata |-> metadata(variables)]>>

launchPipelineExecutionNormalised(i, variables) ==
    <<[op |-> "launchPipelineExecution", inv |-> i,
       variables |-> [variables EXCEPT !.executionParams.selector.jobName =
                         LogicalOr(@, variables.executionParams.selector.pipelineName)]]>>

launchPipelineExecution(i, variables) ==
    <<[op |-> "launchPipelineExecution", inv |-> i, variables |-> variables]>>

\* line 50: logTelemetry(TelemetryAction.LAUNCH_RUN, metadata)
logTelemetry(i, md) ==
    [op |-> "logTelemetry", inv |-> i, action |-> "LAUNCH_RUN", metadata |-> md]

\* line 51: handleLaunchResult(props.pipelineName, result, history, {behavior})
handleLaunchResultAlwaysToast(i, p, result) ==
    [op |-> "handleLaunchResult", inv |-> i, pipelineName |-> p.pipelineName,
     result |-> result, behavior |-> "toast"]

handleLaunchResultAlwaysOpen(i, p, result) ==
    [op |-> "handleLaunchResult", inv |-> i, pipelineName |-> p.pipelineName,
     result |-> result, behavior |-> "open"]

handleLaunchResultAlwaysNewTab(i, p, result) ==
    [op |-> "handleLaunchResult", inv |-> i, pipelineName |-> p.pipelineName,
     result |-> result, behavior |-> "open-in-new-tab"]

handleLaunchResult(i, p, result) ==
    [op |-> "handleLaunchResult", inv |-> i, pipelineName |-> p.pipelineName,
     result |-> result, behavior |-> p.behavior]

\* line 53: showLaunchError(error as Error)
showLaunchError(i, error) ==
    [op |-> "showLaunchError", inv |-> i, error |-> error]

\* What the result handler does with a call handleLaunchResult(pipelineName,
\* result, history, {behavior}): for a created run, "open" pushes the run's
\* page on the history of the current view, "open-in-new-tab" opens it in a
\* new window and "toast" shows a notification; a payload that reports a
\* failure creates no run page to go to and leaves all three alone.
LaunchpadPage == [page |-> "launchpad", runId |-> ""]
RunPage(runId) == [page |-> "run", runId |-> runId]

applyHandleLaunchResult(b, call) ==
    LET payload == call.result.data.launchPipelineExecution IN
    IF payload.typename # "LaunchRunSuccess" THEN b
    ELSE CASE call.behavior = "open" ->
                [b EXCEPT !.history = Append(@, [path |-> RunPage(payload.runId),
                                                 inv |-> call.inv])]
           [] call.behavior = "open-in-new-tab" ->
                [b EXCEPT !.windows = Append(@, [path |-> RunPage(payload.runId),
                                                 inv |-> call.inv])]
           [] call.behavior = "toast" ->
                [b EXCEPT !.toasts = Append(@, [runId |-> payload.runId,
                                                pipelineName |-> call.pipelineName,
                                                inv |-> call.inv])]

\* the browser after the calls of one turn of the event loop
RECURSIVE applyCalls(_, _)
applyCalls(b, newCalls) ==
    IF newCalls = <<>> THEN b
    ELSE applyCalls(IF Head(newCalls).op = "handleLaunchResult"
                    THEN applyHandleLaunchResult(b, Head(newCalls))
                    ELSE b,
                    Tail(newCalls))

\* lines 50-51: the statements of the try block after the await. c is the
\* closure of the invocation: its variables, its metadata and the props of
\* the render whose onLaunch was clicked.
tryContinuationHandlerFirst(i, c, result) ==
    <<handleLaunchResult(i, c.props, result), logTelemetry(i, c.metadata)>>

tryContinuationSuccessOnly(i, c, result) ==
    IF result.data.launchPipelineExecution.typename = "LaunchRunSuccess"
    THEN <<logTelemetry(i, c.metadata), handleLaunchResult(i, c.props, result)>>
    ELSE <<handleLaunchResult(i, c.props, result)>>

tryContinuationSharedMetadata(i, c, result) ==
    <<logTelemetry(i, invocations[Len(invocations)].metadata),
      handleLaunchResult(i, c.props, result)>>

tryContinuationShowsPayloadError(i, c, result) ==
    IF result.data.launchPipelineExecution.typename = "LaunchRunSuccess"
    THEN <<logTelemetry(i, c.metadata), handleLaunchResult(i, c.props, result)>>
    ELSE <<showLaunchError(i, result.data.launchPipelineExecution.typename)>>

tryContinuationAlsoShowsError(i, c, result) ==
    <<logTelemetry(i, c.metadata), handleLaunchResult(i, c.props, result),
      showLaunchError(i, "Error")>>

tryContinuationDiscardedOnUnmount(i, c, result) ==
    IF mounted
    THEN <<logTelemetry(i, c.metadata), handleLaunchResult(i, c.props, result)>>
    ELSE <<>>

tryContinuationNameFromSelector(i, c, result) ==
    LET name == c.metadata["jobName"] IN
    <<logTelemetry(i, c.metadata),
      handleLaunchResult(i, [c.props EXCEPT !.pipelineName =
                                 IF name.kind = "string" THEN name.str ELSE ""],
                         result)>>

tryContinuation(i, c, result) ==
    <<logTelemetry(i, c.metadata), handleLaunchResult(i, c.props, result)>>

\* lines 52-54: the catch block
catchBlockRetries(i, c, error) ==
    launchPipelineExecution(i, c.variables) \o <<showLaunchError(i, error)>>

catchBlockLogsTelemetry(i, c, error) ==
    <<logTelemetry(i, c.metadata), showLaunchError(i, error)>>

catchBlockGenericError(i, c, error) ==
    <<showLaunchError(i, "Error")>>

catchBlock(i, c, error) ==
    <<showLaunchError(i, error)>>

\* line 55: the catch block ends normally, so the async function's promise is
\* fulfilled whatever was caught
afterCatchRethrows(error) == [promise |-> "rejected", reason |-> error]

afterCatch(error) == [promise |-> "fulfilled", reason |-> ""]

\* lines 36-38: the early return
returnsEarlyStrictUndefined(variables) == IsNullishStrictUndefined(variables)

returnsEarlyNameless(variables) ==
    \/ IsNullish(variables)
    \/ ~ToBoolean(LogicalOr(variables.executionParams.selector.jobName,
                            variables.executionParams.selector.pipelineName))

returnsEarly(variables) == IsNullish(variables)

\* lines 42-46 read variables.executionParams.selector.solidSelection (and
\* .jobName, .pipelineName): reading a property of null or undefined throws a
\* TypeError, reading a missing property of an object gives undefined
KindOf(x) == IF "kind" \in DOMAIN x THEN x.kind ELSE "object"
Get(x, key) == IF key \in DOMAIN x THEN x[key] ELSE Undefined

derivationThrows(variables) ==
    \/ IsNullish(variables)
    \/ KindOf(Get(variables, "executionParams")) \in {"null", "undefined"}
    \/ KindOf(Get(variables.executionParams, "selector")) \in {"null", "undefined"}

\* lines 34-47: an exception thrown before the try block is entered leaves the
\* async function: its promise is rejected with it and no collaborator is called
escapesCaught(i, error) ==
    [promise |-> "fulfilled", reason |-> "", calls |-> <<showLaunchError(i, error)>>]

escapes(i, error) == [promise |-> "rejected", reason |-> error, calls |-> <<>>]

\* lines 48-54: lines 50 and 51 are inside the try block, so an exception
\* thrown by logTelemetry or by handleLaunchResult is caught like one of the
\* mutation
thrownInTryEscapes(i, c, error) == escapes(i, error)

thrownInTry(i, c, error) ==
    [promise |-> afterCatch(error).promise, reason |-> afterCatch(error).reason,
     calls |-> catchBlock(i, c, error)]

\* line 64: the disabled flag handed to LaunchButton
disabledIgnoresPermission == props.disabled

disabled == props.disabled \/ ~canLaunchPipelineExecution

\* line 65: the tooltip handed to LaunchButton. DISABLED_MESSAGE is the text
\* exported by app/Permissions; undefined is no tooltip.
DISABLED_MESSAGE == Str("DISABLED_MESSAGE")

tooltipWheneverDisabled == IF disabled THEN DISABLED_MESSAGE ELSE Undefined

tooltip == IF ~canLaunchPipelineExecution THEN DISABLED_MESSAGE ELSE Undefined

\* line 35: the calls of props.getVariables made by one invocation, each with
\* what it returned (or threw)
getVariablesTwice(answer) == <<answer, answer>>

getVariables(answer) == <<answer>>

Thrown(error) == [kind |-> "thrown", error |-> error]

\* the promise returned by launchPipelineExecution, as the remote service
\* settles it: not called, pending, fulfilled with a result, rejected with an
\* error, or the call threw
NoResult == [data |-> Null]
Mutation(state, result, error) ==
    [state |-> state, result |-> result, error |-> error]

\* one call of onLaunch: where it stands, the promise it returned, its
\* closure (variables, metadata, props) and its calls of getVariables
Invocation(pc, promise, reason, variables, md, mutation) ==
    [pc |-> pc, promise |-> promise, reason |-> reason, variables |-> variables,
     metadata |-> md, props |-> props, mutation |-> mutation,
     got |-> getVariables(variables)]

\* ----------------------------------------------------------------- actions

Init ==
    /\ props \in [behavior : Behaviors, pipelineName : PropsPipelineNames,
                  disabled : BOOLEAN]
    /\ canLaunchPipelineExecution \in BOOLEAN
    /\ invocations = <<>>
    /\ calls = <<>>
    /\ mounted = TRUE
    /\ browser = [history |-> <<[path |-> LaunchpadPage, inv |-> 0]>>,
                  windows |-> <<>>, toasts |-> <<>>]

\* lines 34-49: the turn of the event loop that runs onLaunch up to the await.
\* variables is what props.getVariables() returns, outcome whether the call of
\* the mutation returns its promise or throws.
onLaunch(variables, outcome) ==
    LET i == Len(invocations) + 1 IN
    /\ UNCHANGED <<props, canLaunchPipelineExecution, mounted>>
    /\ IF returnsEarly(variables)
       THEN \* lines 36-38
            /\ invocations' = Append(invocations,
                   Invocation("returned", "fulfilled", "", variables, EmptyObject,
                              Mutation("notCalled", NoResult, "")))
            /\ UNCHANGED <<calls, browser>>
       ELSE IF derivationThrows(variables)
       THEN \* line 42 reads a property of null or undefined: a TypeError
            \* outside the try block
            LET e == escapes(i, "TypeError") IN
            /\ invocations' = Append(invocations,
                   Invocation("returned", e.promise, e.reason, variables,
                              EmptyObject, Mutation("notCalled", NoResult, "")))
            /\ calls' = calls \o e.calls
            /\ browser' = applyCalls(browser, e.calls)
       ELSE IF outcome.throws
       THEN \* line 49 throws: lines 52-54 run in the same turn
            LET done == afterCatch(outcome.error)
                c == Invocation("returned", done.promise, done.reason, variables,
                                metadata(variables),
                                Mutation("threw", NoResult, outcome.error))
                newCalls == launchPipelineExecution(i, variables)
                                \o catchBlock(i, c, outcome.error)
            IN /\ invocations' = Append(invocations, c)
               /\ calls' = calls \o newCalls
               /\ browser' = applyCalls(browser, newCalls)
       ELSE \* line 49: the call is made and the handler is suspended
            /\ invocations' = Append(invocations,
                   Invocation("await", "pending", "", variables,
                              metadata(variables),
                              Mutation("pending", NoResult, "")))
            /\ calls' = calls \o launchPipelineExecution(i, variables)
            /\ browser' = applyCalls(browser, launchPipelineExecution(i, variables))

\* LaunchButton calls config.onClick when an enabled button is clicked
onClick(variables, outcome) ==
    /\ mounted
    /\ ~disabled
    /\ Len(invocations) < MaxClicks
    /\ onLaunch(variables, outcome)

\* lines 49-51: the mutation's promise is fulfilled with result
launchResolved(i, result) ==
    /\ i \in DOMAIN invocations
    /\ invocations[i].pc = "await"
    /\ calls' = calls \o tryContinuation(i, invocations[i], result)
    /\ browser' = applyCalls(browser, tryContinuation(i, invocations[i], result))
    /\ invocations' = [invocations EXCEPT
           ![i].pc = "returned",
           ![i].promise = "fulfilled",
           ![i].mutation = Mutation("fulfilled", result, "")]
    /\ UNCHANGED <<props, canLaunchPipelineExecution, mounted>>

\* lines 49, 52-54: the mutation's promise is rejected with error
launchRejected(i, error) ==
    /\ i \in DOMAIN invocations
    /\ invocations[i].pc = "await"
    /\ calls' = calls \o catchBlock(i, invocations[i], error)
    /\ browser' = applyCalls(browser, catchBlock(i, invocations[i], error))
    /\ invocations' = [invocations EXCEPT
           ![i].pc = "returned",
           ![i].promise = afterCatch(error).promise,
           ![i].reason = afterCatch(error).reason,
           ![i].mutation = Mutation("rejected", NoResult, error)]
    /\ UNCHANGED <<props, canLaunchPipelineExecution, mounted>>

Click == \E variables \in Variables, outcome \in CallOutcomes :
            onClick(variables, outcome)

Resolve == \E i \in 1..MaxClicks, result \in Results : launchResolved(i, result)

Reject == \E i \in 1..MaxClicks, error \in Errors : launchRejected(i, error)

Next == Click \/ Resolve \/ Reject

Spec == Init /\ [][Next]_vars

\* One click with any request of the type: the metadata derivation (lines
\* 40-46) applied to every shape of selector.
ClickMeta == \E variables \in AllVariables, outcome \in CallOutcomes :
                /\ invocations = <<>>
                /\ onClick(variables, outcome)

NextMeta == ClickMeta \/ Resolve \/ Reject

SpecMeta == Init /\ [][NextMeta]_vars

\* The component in its page: the parent re-renders it with another disabled
\* flag, the permissions change, and it is unmounted (it registers no cleanup,
\* lines 26-33, so nothing else happens then). Results carry two run ids so
\* that a navigation is to the run returned.
UIVariables == {Undefined, Request(Str("job_a"), Undefined, Null, "cfg1")}

UIResults ==
    Results \cup
    {[data |-> [launchPipelineExecution |->
                  [typename |-> "LaunchRunSuccess", runId |-> "run2"]]]}

UIErrors == {"NetworkError"}

UIOutcomes == {[throws |-> FALSE, error |-> ""],
               [throws |-> TRUE, error |-> "NetworkError"]}

rerender(isDisabled, permission) ==
    /\ mounted
    /\ <<isDisabled, permission>> # <<props.disabled, canLaunchPipelineExecution>>
    /\ props' = [props EXCEPT !.disabled = isDisabled]
    /\ canLaunchPipelineExecution' = permission
    /\ UNCHANGED <<invocations, calls, mounted, browser>>

unmount ==
    /\ mounted
    /\ mounted' = FALSE
    /\ calls' = Append(calls, [op |-> "unmount", inv |-> 0])
    /\ UNCHANGED <<props, canLaunchPipelineExecution, invocations, browser>>

ClickUI == \E variables \in UIVariables, outcome \in UIOutcomes :
              onClick(variables, outcome)

ResolveUI == \E i \in 1..MaxClicks, result \in UIResults : launchResolved(i, result)

RejectUI == \E i \in 1..MaxClicks, error \in UIErrors : launchRejected(i, error)

Rerender == \E isDisabled \in BOOLEAN, permission \in BOOLEAN :
               rerender(isDisabled, permission)

NextUI == ClickUI \/ ResolveUI \/ RejectUI \/ Rerender \/ unmount

SpecUI == Init /\ [][NextUI]_vars

\* The remote call of invocation i is settled: its promise is fulfilled or
\* rejected. SpecUIFair is SpecUI under the assumption that every remote call
\* is eventually settled.
SettleUI(i) ==
    \/ \E result \in UIResults : launchResolved(i, result)
    \/ \E error \in UIErrors : launchRejected(i, error)

SpecUIFair == SpecUI /\ \A i \in 1..MaxClicks : WF_vars(SettleUI(i))

\* The handler with collaborators that throw: props.getVariables throws or
\* returns an object without executionParams or without a selector (the type
\* of line 19 is not enforced at run time), and logTelemetry or
\* handleLaunchResult throws once the submission has resolved.
MalformedRequests ==
    {[kind |-> "object", executionParams |-> Undefined],
     [kind |-> "object",
      executionParams |-> [selector |-> Null, runConfigData |-> "cfg1",
                           mode |-> "default"]]}

ProviderOutcomes ==
    {[throws |-> FALSE, value |-> v, error |-> ""] :
        v \in {Undefined, Request(Str("job_a"), Undefined, Arr(<<"op1">>), "cfg1")}
               \cup MalformedRequests}
    \cup {[throws |-> TRUE, value |-> Undefined, error |-> "ProviderError"]}

ContinuationFaults ==
    {[by |-> "logTelemetry", error |-> "TelemetryError"],
     [by |-> "handleLaunchResult", error |-> "HandlerError"]}

\* lines 34-49 with the outcome of line 35: getVariables throws, outside the
\* try block, or returns got.value
onLaunchFrom(got, outcome) ==
    IF got.throws
    THEN LET i == Len(invocations) + 1
             e == escapes(i, got.error)
         IN /\ invocations' = Append(invocations,
                   Invocation("returned", e.promise, e.reason, Thrown(got.error),
                              EmptyObject, Mutation("notCalled", NoResult, "")))
            /\ calls' = calls \o e.calls
            /\ browser' = applyCalls(browser, e.calls)
            /\ UNCHANGED <<props, canLaunchPipelineExecution, mounted>>
    ELSE onLaunch(got.value, outcome)

onClickFrom(got, outcome) ==
    /\ mounted
    /\ ~disabled
    /\ Len(invocations) < MaxClicks
    /\ onLaunchFrom(got, outcome)

\* the statements of lines 50-51 up to the call that throws, and the throw
throwPoint(i, fault) ==
    [op |-> "throw", inv |-> i, by |-> fault.by, error |-> fault.error]

tryContinuationUpTo(i, c, result, fault) ==
    LET all == tryContinuation(i, c, result)
        at == {k \in DOMAIN all : all[k].op = fault.by}
    IN IF at = {} THEN all
       ELSE SubSeq(all, 1, CHOOSE k \in at : \A l \in at : k <= l)
                \o <<throwPoint(i, fault)>>

\* lines 49-54: the mutation's promise is fulfilled with result and the
\* collaborator fault.by throws fault.error. The handler that throws may or
\* may not have acted on the browser before it threw.
launchResolvedThrowing(i, result, fault, acted) ==
    LET c == invocations[i]
        upTo == tryContinuationUpTo(i, c, result, fault)
        caught == thrownInTry(i, c, fault.error)
    IN /\ i \in DOMAIN invocations
       /\ invocations[i].pc = "await"
       /\ \E k \in DOMAIN upTo : upTo[k].op = "throw"
       /\ calls' = calls \o upTo \o caught.calls
       /\ browser' = IF acted THEN applyCalls(browser, upTo \o caught.calls)
                     ELSE applyCalls(browser, caught.calls)
       /\ invocations' = [invocations EXCEPT
              ![i].pc = "returned",
              ![i].promise = caught.promise,
              ![i].reason = caught.reason,
              ![i].mutation = Mutation("fulfilled", result, "")]
       /\ UNCHANGED <<props, canLaunchPipelineExecution, mounted>>

ClickFrom == \E got \in ProviderOutcomes, outcome \in UIOutcomes :
                onClickFrom(got, outcome)

ResolveThrowing ==
    \E i \in 1..MaxClicks, result \in Results, fault \in ContinuationFaults,
       acted \in BOOLEAN :
        launchResolvedThrowing(i, result, fault, acted)

NextThrowing == ClickFrom \/ Resolve \/ ResolveThrowing \/ RejectUI

SpecThrowing == Init /\ [][NextThrowing]_vars

\* Launches that differ in what is not the selector: requests with the same
\* selector and another run configuration, mode and tags.
WithModeAndTags(request, mode, tags) ==
    [request EXCEPT !.executionParams =
        [selector |-> @.selector, runConfigData |-> @.runConfigData,
         mode |-> mode, executionMetadata |-> [tags |-> tags]]]

PairVariables ==
    {WithModeAndTags(Request(Str("job_a"), Undefined, Null, "cfg1"),
                     "default", <<>>),
     WithModeAndTags(Request(Str("job_a"), Undefined, Null, "cfg2"),
                     "other", <<"secret_tag">>),
     WithModeAndTags(Request(Undefined, Str("pipe_b"), Arr(<<"op1">>), "cfg1"),
                     "default", <<"secret_tag">>),
     WithModeAndTags(Request(Undefined, Str("pipe_b"), Arr(<<"op1">>), "cfg2"),
                     "default", <<"secret_tag">>)}

ClickPair == \E variables \in PairVariables, outcome \in UIOutcomes :
                onClick(variables, outcome)

NextPair == ClickPair \/ Resolve \/ RejectUI

SpecPair == Init /\ [][NextPair]_vars

\* ------------------------------------------------------ reading the state

\* the calls of collaborator op made by invocation i, in order
CallsOf(i, op) == SelectSeq(calls, LAMBDA c : c.inv = i /\ c.op = op)
Count(i, op) == Len(CallsOf(i, op))
AllCallsOf(i) == SelectSeq(calls, LAMBDA c : c.inv = i)
Positions(i, op) == {k \in DOMAIN calls : calls[k].inv = i /\ calls[k].op = op}
Started == DOMAIN invocations

\* what the claims mean by their cases, stated on the inputs alone
YieldsNoRequest(i) == invocations[i].variables.kind \in {"null", "undefined"}
YieldsRequest(i) == invocations[i].variables.kind = "object"
SubmissionFailed(i) == invocations[i].mutation.state \in {"rejected", "threw"}
SubmissionResolved(i) == invocations[i].mutation.state = "fulfilled"
Selector(i) == invocations[i].variables.executionParams.selector
IsSet(x) == x.kind = "string" /\ x.str # ""
Nameless(i) ==
    /\ YieldsRequest(i)
    /\ ~IsSet(Selector(i).jobName)
    /\ ~IsSet(Selector(i).pipelineName)

\* ------------------------------------------------------------------ claims

\* C1: whenever getVariables() returns undefined or null, onLaunch returns
\* normally without any side effect: no call of the mutation, of logTelemetry,
\* of handleLaunchResult or of showLaunchError is made by that invocation.
C1_NoRequestNoSideEffect ==
    \A i \in Started :
        YieldsNoRequest(i) =>
            /\ AllCallsOf(i) = <<>>
            /\ invocations[i].pc = "returned"
            /\ invocations[i].promise = "fulfilled"

C1_Witness ==
    \E i, j \in Started :
        /\ invocations[i].variables = Null
        /\ invocations[j].variables = Undefined
        /\ invocations[i].pc = "returned"
        /\ invocations[j].pc = "returned"

\* C2: an invocation whose provider yields a request calls the launch mutation
\* exactly once, whatever the outcome of the call: it is not called again after
\* a failure, nor a second time within the invocation.
C2_MutationCalledExactlyOnce ==
    \A i \in Started :
        /\ YieldsRequest(i) => Count(i, "launchPipelineExecution") = 1
        /\ YieldsRequest(i) =>
              CallsOf(i, "launchPipelineExecution")[1].variables
                  = invocations[i].variables

C2_Witness ==
    \E i, j \in Started :
        /\ invocations[i].mutation.state = "rejected"
        /\ invocations[j].mutation.state = "threw"
        /\ Count(i, "launchPipelineExecution") = 1
        /\ Count(j, "launchPipelineExecution") = 1

\* C3: a LAUNCH_RUN telemetry event is emitted exactly once for each invocation
\* whose submission call completed without throwing, and never for an
\* invocation that aborted at validation or whose submission threw or was
\* rejected; so the number of telemetry events equals the number of
\* submissions that resolved.
TelemetryEvents == SelectSeq(calls, LAMBDA c : c.op = "logTelemetry")

C3_TelemetryOncePerResolvedSubmission ==
    /\ \A i \in Started :
          Count(i, "logTelemetry") = IF SubmissionResolved(i) THEN 1 ELSE 0
    /\ Len(TelemetryEvents) = Cardinality({i \in Started : SubmissionResolved(i)})
    /\ \A k \in DOMAIN TelemetryEvents : TelemetryEvents[k].action = "LAUNCH_RUN"

C3_Witness ==
    \E i, j \in Started :
        /\ SubmissionResolved(i)
        /\ SubmissionFailed(j)
        /\ Len(TelemetryEvents) = 1

\* C4 as stated: every invocation that reaches the network call emits exactly
\* one telemetry event, whether the call succeeds or fails.
C4_TelemetryWhateverTheCallOutcome ==
    \A i \in Started :
        (invocations[i].pc = "returned" /\ invocations[i].mutation.state # "notCalled")
            => Count(i, "logTelemetry") = 1

\* C4 as amended: an invocation that reached the network call and has returned
\* emitted exactly one telemetry event when the call completed without
\* throwing, whatever the payload reports (a created run or a failure of the
\* launch), and none when the call threw or was rejected.
PayloadOf(i) == invocations[i].mutation.result.data.launchPipelineExecution.typename

C4_TelemetryGatedByThrowOnly ==
    \A i \in Started :
        (invocations[i].pc = "returned" /\ invocations[i].mutation.state # "notCalled")
            => /\ SubmissionResolved(i) \/ SubmissionFailed(i)
               /\ SubmissionResolved(i) =>
                     Count(i, "logTelemetry") = 1
               /\ SubmissionFailed(i) => Count(i, "logTelemetry") = 0

C4_Witness ==
    \E i, j \in Started :
        /\ SubmissionResolved(i)
        /\ PayloadOf(i) = "PythonError"
        /\ Count(i, "logTelemetry") = 1
        /\ invocations[j].mutation.state = "rejected"
        /\ Count(j, "logTelemetry") = 0

\* C5 as stated: when the request has neither a non-empty selector.jobName nor
\* a non-empty selector.pipelineName, the launch is aborted without side
\* effects.
C5_NamelessRequestAborted ==
    \A i \in Started : Nameless(i) => AllCallsOf(i) = <<>>

\* C5 as amended: the name is not checked. A request with neither a non-empty
\* selector.jobName nor a non-empty selector.pipelineName is submitted like any
\* other: the mutation is called once with it and, once the call resolves, the
\* telemetry event carries selector.pipelineName (null, undefined or empty) as
\* jobName. Only a null or undefined return of getVariables aborts the launch
\* without side effects.
C5_NamelessRequestSubmitted ==
    /\ \A i \in Started :
          Nameless(i) =>
              /\ Count(i, "launchPipelineExecution") = 1
              /\ invocations[i].mutation.state # "notCalled"
              /\ SubmissionResolved(i) =>
                    /\ Count(i, "logTelemetry") = 1
                    /\ CallsOf(i, "logTelemetry")[1].metadata["jobName"]
                           = Selector(i).pipelineName
                    /\ Count(i, "handleLaunchResult") = 1
    /\ \A i \in Started : (AllCallsOf(i) = <<>>) <=> YieldsNoRequest(i)

C5_Witness ==
    \E i \in Started :
        /\ Nameless(i)
        /\ Selector(i).jobName = Str("")
        /\ SubmissionResolved(i)
        /\ Count(i, "logTelemetry") = 1

\* C6: when the submission call throws or is rejected, showLaunchError is
\* called exactly once, with the error thrown, and that invocation logs no
\* telemetry event and does not call handleLaunchResult.
C6_FailureShownOnceNothingElse ==
    \A i \in Started :
        SubmissionFailed(i) =>
            /\ Count(i, "showLaunchError") = 1
            /\ CallsOf(i, "showLaunchError")[1].error = invocations[i].mutation.error
            /\ Count(i, "logTelemetry") = 0
            /\ Count(i, "handleLaunchResult") = 0

C6_Witness ==
    \E i, j \in Started :
        /\ invocations[i].mutation = Mutation("rejected", NoResult, "GraphQLError")
        /\ invocations[j].mutation = Mutation("threw", NoResult, "NetworkError")
        /\ Count(i, "showLaunchError") = 1
        /\ Count(j, "showLaunchError") = 1

\* C7: a failure of the submission call is absorbed: whenever the mutation
\* throws or is rejected, onLaunch has returned and its promise is fulfilled,
\* not rejected.
C7_FailureAbsorbed ==
    \A i \in Started :
        SubmissionFailed(i) =>
            /\ invocations[i].pc = "returned"
            /\ invocations[i].promise = "fulfilled"

C7_Witness ==
    \E i \in Started :
        /\ invocations[i].mutation.state = "rejected"
        /\ invocations[i].promise = "fulfilled"
        /\ Count(i, "showLaunchError") = 1

\* C8: after a submission that did not throw, the invocation has logged its
\* telemetry event before calling handleLaunchResult, and has called
\* handleLaunchResult exactly once, with props.behavior.
C8_TelemetryBeforeResultHandler ==
    \A i \in Started :
        SubmissionResolved(i) =>
            /\ Count(i, "handleLaunchResult") = 1
            /\ Count(i, "logTelemetry") = 1
            /\ \A t \in Positions(i, "logTelemetry") :
                  \A h \in Positions(i, "handleLaunchResult") : t < h
            /\ CallsOf(i, "handleLaunchResult")[1].behavior = props.behavior
            /\ CallsOf(i, "handleLaunchResult")[1].result
                   = invocations[i].mutation.result

C8_Witness ==
    \E i \in Started :
        /\ SubmissionResolved(i)
        /\ props.behavior = "open-in-new-tab"
        /\ Positions(i, "logTelemetry") # {}
        /\ Positions(i, "handleLaunchResult") # {}

C10_JobNamePreferredOverPipelineName ==
    \A k \in DOMAIN calls :
        calls[k].op = "logTelemetry" =>
            LET md == calls[k].metadata
                sel == Selector(calls[k].inv)
            IN /\ "jobName" \in DOMAIN md
               /\ IsSet(sel.jobName) => md["jobName"] = sel.jobName
               /\ ~IsSet(sel.jobName) => md["jobName"] = sel.pipelineName

C10_Witness ==
    \E k \in DOMAIN calls :
        /\ calls[k].op = "logTelemetry"
        /\ Selector(calls[k].inv).jobName = Str("job_a")
        /\ Selector(calls[k].inv).pipelineName = Str("pipe_b")
        /\ calls[k].metadata["jobName"] = Str("job_a")

\* the browser, as the claims read it
Location == browser.history[Len(browser.history)].path
NavigationsOf(i) == SelectSeq(browser.history, LAMBDA e : e.inv = i)
WindowsOf(i) == SelectSeq(browser.windows, LAMBDA e : e.inv = i)
ToastsOf(i) == SelectSeq(browser.toasts, LAMBDA e : e.inv = i)
RunCreated(i) == SubmissionResolved(i) /\ PayloadOf(i) = "LaunchRunSuccess"
RunIdOf(i) == invocations[i].mutation.result.data.launchPipelineExecution.runId

\* C11: after a successful submission with behavior = "open", the invocation
\* has navigated the current view to the page of the run returned exactly
\* once (not zero times, not twice).
C11_OpenNavigatesOnce ==
    \A i \in Started :
        (RunCreated(i) /\ props.behavior = "open") =>
            /\ Len(NavigationsOf(i)) = 1
            /\ NavigationsOf(i)[1].path = RunPage(RunIdOf(i))

C11_Witness ==
    \E i \in Started :
        /\ RunCreated(i)
        /\ props.behavior = "open"
        /\ RunIdOf(i) = "run2"
        /\ Location = RunPage("run2")

\* C12: after a successful submission with behavior = "open-in-new-tab", the
\* invocation has opened one new window on the page of the run returned and
\* has not navigated the current view, whose location is still the launchpad.
C12_NewTabLeavesCurrentView ==
    \A i \in Started :
        (RunCreated(i) /\ props.behavior = "open-in-new-tab") =>
            /\ Len(WindowsOf(i)) = 1
            /\ WindowsOf(i)[1].path = RunPage(RunIdOf(i))
            /\ NavigationsOf(i) = <<>>
            /\ Location = LaunchpadPage

C12_Witness ==
    \E i \in Started :
        /\ RunCreated(i)
        /\ props.behavior = "open-in-new-tab"
        /\ RunIdOf(i) = "run2"
        /\ Len(browser.windows) = 1
        /\ Location = LaunchpadPage

\* C13: after a successful submission with behavior = "toast", the invocation
\* has shown one notification for the run and has neither navigated the
\* current view nor opened a new window.
C13_ToastDoesNotNavigate ==
    \A i \in Started :
        (RunCreated(i) /\ props.behavior = "toast") =>
            /\ Len(ToastsOf(i)) = 1
            /\ ToastsOf(i)[1].runId = RunIdOf(i)
            /\ NavigationsOf(i) = <<>>
            /\ WindowsOf(i) = <<>>
            /\ Location = LaunchpadPage

C13_Witness ==
    \E i \in Started :
        /\ RunCreated(i)
        /\ props.behavior = "toast"
        /\ Len(browser.toasts) = 1
        /\ Len(browser.history) = 1
        /\ browser.windows = <<>>

\* C14: the launch control is disabled exactly when props.disabled is true or
\* the caller lacks the launch permission. While it is disabled no invocation
\* starts: no step adds an invocation or calls the mutation, and every call
\* made in such a step belongs to an invocation started earlier, while the
\* control was enabled. While it is enabled (and mounted) a click is possible.
NoLaunchPermissionOrDisabled == props.disabled \/ ~canLaunchPipelineExecution

NewCalls == SubSeq(calls', Len(calls) + 1, Len(calls'))

C14_DisabledControlStartsNothing ==
    /\ [](disabled <=> NoLaunchPermissionOrDisabled)
    /\ []((~NoLaunchPermissionOrDisabled /\ mounted /\ Len(invocations) < MaxClicks)
            => ENABLED ClickUI)
    /\ [](NoLaunchPermissionOrDisabled => ~ENABLED ClickUI)
    /\ [][NoLaunchPermissionOrDisabled =>
            /\ Len(invocations') = Len(invocations)
            /\ \A k \in DOMAIN NewCalls :
                  /\ NewCalls[k].op # "launchPipelineExecution"
                  /\ NewCalls[k].inv \in DOMAIN invocations \cup {0}]_vars

C14_Witness ==
    /\ ~canLaunchPipelineExecution
    /\ ~props.disabled
    /\ \E i \in Started : invocations[i].pc = "await"

\* C15: clicks are neither deduplicated nor serialized: there are as many
\* calls of the mutation as invocations whose provider yielded a request, one
\* for each, and while the control is enabled a click with a request is
\* possible whether or not an earlier submission is still pending.
MutationCalls == SelectSeq(calls, LAMBDA c : c.op = "launchPipelineExecution")
Pending == {i \in Started : invocations[i].pc = "await"}

C15_ClicksNotDeduplicated ==
    /\ Len(MutationCalls) = Cardinality({i \in Started : YieldsRequest(i)})
    /\ \A k, l \in DOMAIN MutationCalls :
          k # l => MutationCalls[k].inv # MutationCalls[l].inv
    /\ (Len(invocations) < MaxClicks /\ ~NoLaunchPermissionOrDisabled /\ mounted) =>
          \A variables \in Variables, outcome \in CallOutcomes :
              ENABLED onClick(variables, outcome)

C15_Witness ==
    /\ Cardinality(Pending) = 2
    /\ Len(MutationCalls) = 2
    /\ MutationCalls[1].inv = 1
    /\ MutationCalls[2].inv = 2

\* C16: every telemetry event carries the metadata derived from the variables
\* of the invocation that logs it, whatever the order in which the pending
\* submissions are settled and whatever the other clicks' variables are.
ExpectedMetadata(sel) ==
    LET name == IF IsSet(sel.jobName) THEN sel.jobName ELSE sel.pipelineName IN
    IF sel.solidSelection.kind = "array"
    THEN [k \in {"opSelection", "jobName"} |->
             IF k = "jobName" THEN name ELSE Str("provided")]
    ELSE [k \in {"jobName"} |-> name]

C16_TelemetryCarriesOwnMetadata ==
    \A k \in DOMAIN calls :
        calls[k].op = "logTelemetry" =>
            calls[k].metadata = ExpectedMetadata(Selector(calls[k].inv))

C16_Witness ==
    \E t1 \in Positions(1, "logTelemetry"), t2 \in Positions(2, "logTelemetry") :
        /\ t2 < t1
        /\ calls[t1].metadata # calls[t2].metadata
        /\ \E m1 \in Positions(1, "launchPipelineExecution") :
              \E m2 \in Positions(2, "launchPipelineExecution") :
                  m1 < m2 /\ m2 < t2

\* C17: a submission that returns without throwing but whose payload reports
\* a failure of the launch (no run created) still logs exactly one LAUNCH_RUN
\* telemetry event, before the result handler gets the payload, and this
\* component does not call showLaunchError.
C17_TelemetryBeforePayloadInspected ==
    \A i \in Started :
        (SubmissionResolved(i) /\ PayloadOf(i) # "LaunchRunSuccess") =>
            /\ Count(i, "logTelemetry") = 1
            /\ CallsOf(i, "logTelemetry")[1].action = "LAUNCH_RUN"
            /\ Count(i, "showLaunchError") = 0
            /\ \A t \in Positions(i, "logTelemetry") :
                  \E h \in Positions(i, "handleLaunchResult") :
                      t < h /\ calls[h].result = invocations[i].mutation.result

C17_Witness ==
    \E i \in Started :
        /\ SubmissionResolved(i)
        /\ PayloadOf(i) = "PythonError"
        /\ Positions(i, "logTelemetry") # {}
        /\ Count(i, "showLaunchError") = 0

\* C18: every invocation is in one state of the machine: Submitting
\* (suspended at the await), or one of the outcomes Aborted, Succeeded and
\* Failed. Its calls are those of that state only: none when Aborted; the
\* mutation alone while Submitting; the mutation, the telemetry event and the
\* result handler when Succeeded; the mutation and showLaunchError when
\* Failed. So success and failure effects never both occur, and Aborted is
\* without a submission. The only change of state is from Submitting to
\* Succeeded or Failed.
StateOf(i) ==
    CASE invocations[i].pc = "await" -> "Submitting"
      [] invocations[i].mutation.state = "notCalled" -> "Aborted"
      [] invocations[i].mutation.state = "fulfilled" -> "Succeeded"
      [] OTHER -> "Failed"

OpsOf(i) == [k \in DOMAIN AllCallsOf(i) |-> AllCallsOf(i)[k].op]

C19_ReturnsOnceSettled ==
    /\ \A i \in 1..MaxClicks :
          [](i \in Started => <>(i \in Started /\ invocations[i].pc = "returned"))
    /\ [](\A i \in Started :
            invocations[i].pc = "await" =>
                /\ invocations[i].mutation.state = "pending"
                /\ invocations[i].promise = "pending"
                /\ Count(i, "logTelemetry") = 0
                /\ Count(i, "handleLaunchResult") = 0
                /\ Count(i, "showLaunchError") = 0
                /\ NavigationsOf(i) = <<>>
                /\ WindowsOf(i) = <<>>
                /\ ToastsOf(i) = <<>>)
    /\ [][\A i \in DOMAIN invocations :
             (invocations[i].pc = "await" /\ invocations'[i].pc # "await") =>
                 invocations'[i].mutation.state \in {"fulfilled", "rejected"}]_vars

C19_Witness ==
    \E i, j \in Started :
        /\ invocations[i].pc = "await"
        /\ invocations[j].pc = "returned"
        /\ SubmissionResolved(j)
        /\ i < j

\* C20: a pending submission is not cancelled by the unmounting of the
\* component: after the unmount the remote call can still be settled, and
\* when it is, the continuation runs as if mounted (telemetry and
\* handleLaunchResult when fulfilled, showLaunchError when rejected).
C20_UnmountDoesNotCancel ==
    /\ [](\A i \in Started :
            (invocations[i].pc = "await" /\ ~mounted) =>
                /\ \A result \in UIResults : ENABLED launchResolved(i, result)
                /\ \A error \in UIErrors : ENABLED launchRejected(i, error))
    /\ [][\A i \in DOMAIN invocations :
             (~mounted /\ invocations[i].pc = "await"
                       /\ invocations'[i].pc = "returned") =>
                 /\ invocations'[i].mutation.state = "fulfilled" =>
                       /\ Len(NewCalls) = 2
                       /\ NewCalls[1].op = "logTelemetry"
                       /\ NewCalls[2].op = "handleLaunchResult"
                       /\ NewCalls[1].inv = i /\ NewCalls[2].inv = i
                 /\ invocations'[i].mutation.state = "rejected" =>
                       /\ Len(NewCalls) = 1
                       /\ NewCalls[1].op = "showLaunchError"
                       /\ NewCalls[1].inv = i]_vars

UnmountedAt == {k \in DOMAIN calls : calls[k].op = "unmount"}

C20_Witness ==
    /\ ~mounted
    /\ \E u \in UnmountedAt, i \in Started :
          /\ \E t \in Positions(i, "logTelemetry") : u < t
          /\ \E h \in Positions(i, "handleLaunchResult") : u < h
          /\ \E m \in Positions(i, "launchPipelineExecution") : m < u
          /\ Len(NavigationsOf(i)) = 1
    /\ \E u \in UnmountedAt, j \in Started :
          \E e \in Positions(j, "showLaunchError") : u < e

\* C21: the tooltip is DISABLED_MESSAGE exactly when the caller lacks the
\* launch permission and is absent otherwise; a button disabled through
\* props.disabled alone (permission granted) is disabled and has no tooltip.
C21_TooltipIffNoPermission ==
    /\ (tooltip = DISABLED_MESSAGE) <=> ~canLaunchPipelineExecution
    /\ canLaunchPipelineExecution => tooltip = Undefined
    /\ (props.disabled /\ canLaunchPipelineExecution) =>
           disabled /\ tooltip = Undefined
    /\ tooltip = DISABLED_MESSAGE => disabled

\* a button that was clicked while enabled and has since been disabled by its
\* parent, the permission still granted
C21_Witness ==
    /\ invocations # <<>>
    /\ mounted
    /\ props.disabled
    /\ canLaunchPipelineExecution
    /\ disabled
    /\ tooltip = Undefined

\* C22: the name handed to the result handler is props.pipelineName, whatever
\* the request is: for every call of handleLaunchResult the first argument is
\* the pipelineName of the props of the invocation that makes it, for every
\* selector the request may carry. (That it can differ from the jobName of the
\* telemetry event of the same launch is the witness.)
C22_HandlerNamedByProps ==
    \A k \in DOMAIN calls :
        calls[k].op = "handleLaunchResult" =>
            /\ calls[k].pipelineName = invocations[calls[k].inv].props.pipelineName
            /\ calls[k].pipelineName = props.pipelineName

\* one launch whose telemetry says job_a and whose result handler is given
\* shown_name
C22_Witness ==
    \E i \in Started :
        \E t \in Positions(i, "logTelemetry"), h \in Positions(i, "handleLaunchResult") :
            /\ calls[t].metadata["jobName"] = Str("job_a")
            /\ Selector(i).pipelineName = Str("pipe_b")
            /\ calls[h].pipelineName = "shown_name"

\* C23: the try block covers the statements after the await: when
\* logTelemetry or handleLaunchResult throws once the submission has resolved,
\* showLaunchError is called, once, with that exception, although the
\* mutation succeeded; and when it is handleLaunchResult that throws, the
\* telemetry event of the invocation was emitted before and is still there.
ThrowPoints == {k \in DOMAIN calls : calls[k].op = "throw"}

C23_ContinuationThrowShownAsLaunchError ==
    \A x \in ThrowPoints :
        LET i == calls[x].inv IN
        /\ calls[x].by \in {"logTelemetry", "handleLaunchResult"}
        /\ SubmissionResolved(i)
        /\ Count(i, "showLaunchError") = 1
        /\ CallsOf(i, "showLaunchError")[1].error = calls[x].error
        /\ \A e \in Positions(i, "showLaunchError") : x < e
        /\ calls[x].by = "handleLaunchResult" =>
              /\ Count(i, "logTelemetry") = 1
              /\ \A t \in Positions(i, "logTelemetry") :
                    /\ t < x
                    /\ calls[t].action = "LAUNCH_RUN"
                    /\ calls[t].metadata = invocations[i].metadata
              /\ \E h \in Positions(i, "handleLaunchResult") :
                    h < x /\ \A t \in Positions(i, "logTelemetry") : t < h

\* both cases have happened: a created run whose result handler threw, after
\* the telemetry event, and a resolved submission whose telemetry call threw
C23_Witness ==
    /\ \E x \in ThrowPoints :
          /\ calls[x].by = "handleLaunchResult"
          /\ RunCreated(calls[x].inv)
          /\ Count(calls[x].inv, "logTelemetry") = 1
          /\ \E e \in Positions(calls[x].inv, "showLaunchError") :
                calls[e].error = "HandlerError"
    /\ \E x \in ThrowPoints :
          /\ calls[x].by = "logTelemetry"
          /\ SubmissionResolved(calls[x].inv)
          /\ Count(calls[x].inv, "handleLaunchResult") = 0
          /\ \E e \in Positions(calls[x].inv, "showLaunchError") :
                calls[e].error = "TelemetryError"

\* C24: an exception raised before the submission is not absorbed: when
\* getVariables throws, or the request it returns has no
\* executionParams.selector (the metadata derivation throws a TypeError),
\* the promise of onLaunch is rejected with that exception and the invocation
\* calls neither the mutation, logTelemetry, handleLaunchResult nor
\* showLaunchError.
ProviderThrew(i) == invocations[i].variables.kind = "thrown"
LacksSelector(i) == invocations[i].variables \in MalformedRequests

C24_EarlyExceptionRejectsPromise ==
    \A i \in Started :
        /\ ProviderThrew(i) =>
              /\ invocations[i].promise = "rejected"
              /\ invocations[i].reason = invocations[i].variables.error
        /\ LacksSelector(i) =>
              /\ invocations[i].promise = "rejected"
              /\ invocations[i].reason = "TypeError"
        /\ (ProviderThrew(i) \/ LacksSelector(i)) =>
              /\ invocations[i].pc = "returned"
              /\ invocations[i].mutation.state = "notCalled"
              /\ Count(i, "launchPipelineExecution") = 0
              /\ Count(i, "logTelemetry") = 0
              /\ Count(i, "handleLaunchResult") = 0
              /\ Count(i, "showLaunchError") = 0
              /\ AllCallsOf(i) = <<>>

C24_Witness ==
    \E i, j \in Started :
        /\ ProviderThrew(i)
        /\ invocations[i].reason = "ProviderError"
        /\ LacksSelector(j)
        /\ invocations[j].variables.executionParams # Undefined
        /\ invocations[j].promise = "rejected"
        /\ calls = <<>>

\* C25: every invocation calls getVariables exactly once, and when that call
\* returns a request the mutation is given exactly the value returned: the
\* derivation of the metadata has not changed it, and the telemetry metadata
\* is the one of the selector of the request submitted.
C25_SubmitsWhatGetVariablesReturned ==
    \A i \in Started :
        /\ Len(invocations[i].got) = 1
        /\ YieldsNoRequest(i) => invocations[i].got[1].kind \in {"null", "undefined"}
        /\ \A m \in Positions(i, "launchPipelineExecution") :
              /\ calls[m].variables = invocations[i].got[1]
              /\ \A t \in Positions(i, "logTelemetry") :
                    calls[t].metadata =
                        ExpectedMetadata(calls[m].variables.executionParams.selector)

\* a request whose jobName is unset, submitted as returned: the name of the
\* metadata was taken from pipelineName and jobName is still undefined in the
\* request submitted
C25_Witness ==
    \E i \in Started :
        \E m \in Positions(i, "launchPipelineExecution"),
           t \in Positions(i, "logTelemetry") :
            /\ invocations[i].got = <<Request(Undefined, Str("pipe_b"),
                                              Arr(<<"op1">>), "cfg2")>>
            /\ calls[m].variables.executionParams.selector.jobName = Undefined
            /\ calls[t].metadata["jobName"] = Str("pipe_b")

\* C26: the telemetry metadata depends on the selector of the request only:
\* two invocations whose requests have the same selector emit the same
\* metadata, whatever their run configuration, mode and tags are, and no
\* value of the metadata is taken from outside the selector.
SelectorValues(i) ==
    {Selector(i).jobName, Selector(i).pipelineName, Str("provided")}

C26_TelemetryDependsOnSelectorOnly ==
    \A k, l \in DOMAIN calls :
        (calls[k].op = "logTelemetry" /\ calls[l].op = "logTelemetry") =>
            /\ Selector(calls[k].inv) = Selector(calls[l].inv) =>
                  calls[k].metadata = calls[l].metadata
            /\ \A key \in DOMAIN calls[k].metadata :
                  calls[k].metadata[key] \in SelectorValues(calls[k].inv)

\* two launches of the same selector with another run configuration, mode and
\* tags, both logged, with the same metadata
C26_Witness ==
    \E t1 \in Positions(1, "logTelemetry"), t2 \in Positions(2, "logTelemetry") :
        /\ Selector(1) = Selector(2)
        /\ invocations[1].variables.executionParams.runConfigData
              # invocations[2].variables.executionParams.runConfigData
        /\ invocations[1].variables.executionParams.mode
              # invocations[2].variables.executionParams.mode
        /\ invocations[1].variables.executionParams.executionMetadata.tags
              # invocations[2].variables.executionParams.executionMetadata.tags
        /\ calls[t1].metadata = calls[t2].metadata

\* C27: every telemetry event has the action LAUNCH_RUN and a metadata whose
\* keys are among opSelection and jobName: jobName is always a key (its value
\* may be null or undefined when neither name of the selector is set) and
\* opSelection, when it is a key, has the value "provided".
C27_TelemetryEventShape ==
    \A k \in DOMAIN calls :
        calls[k].op = "logTelemetry" =>
            /\ calls[k].action = "LAUNCH_RUN"
            /\ DOMAIN calls[k].metadata \subseteq {"opSelection", "jobName"}
            /\ "jobName" \in DOMAIN calls[k].metadata
            /\ calls[k].metadata["jobName"].kind \in {"string", "null", "undefined"}
            /\ "opSelection" \in DOMAIN calls[k].metadata =>
                  calls[k].metadata["opSelection"] = Str("provided")

\* an event whose jobName key is present with the value null, and no
\* opSelection
C27_Witness ==
    \E k \in DOMAIN calls :
        /\ calls[k].op = "logTelemetry"
        /\ calls[k].action = "LAUNCH_RUN"
        /\ DOMAIN calls[k].metadata = {"jobName"}
        /\ calls[k].metadata["jobName"] = Null
        /\ Selector(calls[k].inv).jobName = Undefined

====
